---- MODULE Spec2Model ----
(***************************************************************************)
(* Model of examples/blend/main.rs: the start-up sequence of main, the     *)
(* cyclic blend-mode iterator, the PipeData block and the 'main render     *)
(* loop with its event drain.                                              *)
(***************************************************************************)
EXTENDS Integers, Sequences, FiniteSets, TLC

\* ------------------------------------------------------------------ bounds
MaxIters == 6      \* loop iterations started
MaxDrain == 2      \* events delivered by one poll_events() drain
MaxPresses == 10   \* cycle-key presses delivered over a run

\* --------------------------------------------------------------- constants
NoValue == "none"   \* a handle not yet created
Unbound == << >>     \* a structured binding not yet made

\* the second triangle listed in clockwise order
vertex_data_cw ==
  << [pos |-> <<-1, -1>>, uv |-> <<0, 1>>],
     [pos |-> << 1, -1>>, uv |-> <<1, 1>>],
     [pos |-> << 1,  1>>, uv |-> <<1, 0>>],
     [pos |-> <<-1, -1>>, uv |-> <<0, 1>>],
     [pos |-> <<-1,  1>>, uv |-> <<0, 0>>],
     [pos |-> << 1,  1>>, uv |-> <<1, 0>>] >>

\* main.rs:82-90, positions and texture coordinates of the six vertices
vertex_data ==
  << [pos |-> <<-1, -1>>, uv |-> <<0, 1>>],
     [pos |-> << 1, -1>>, uv |-> <<1, 1>>],
     [pos |-> << 1,  1>>, uv |-> <<1, 0>>],
     [pos |-> <<-1, -1>>, uv |-> <<0, 1>>],
     [pos |-> << 1,  1>>, uv |-> <<1, 0>>],
     [pos |-> <<-1,  1>>, uv |-> <<0, 0>>] >>

\* a 1-based table whose indices start at 1 instead of 0
blends_one_based ==
  << <<1, "Screen">>, <<2, "Dodge">>, <<3, "Burn">>, <<4, "Overlay">>,
     <<5, "Multiply">>, <<6, "Add">>, <<7, "Divide">>,
     <<8, "Grain Extract">>, <<9, "Grain Merge">> >>

\* main.rs:111-121
blends ==
  << <<0, "Screen">>, <<1, "Dodge">>, <<2, "Burn">>, <<3, "Overlay">>,
     <<4, "Multiply">>, <<5, "Add">>, <<6, "Divide">>,
     <<7, "Grain Extract">>, <<8, "Grain Merge">> >>

\* an iterator that restarts one entry late, skipping the first entry
CycleNextSkipFirst(pos) ==
  IF pos < Len(blends)
    THEN [item |-> blends[pos + 1], pos |-> pos + 1]
    ELSE [item |-> blends[2], pos |-> 2]

\* a cycle that restarts after eight entries, never yielding the last one
CycleNextShort(pos) ==
  IF pos < Len(blends) - 1
    THEN [item |-> blends[pos + 1], pos |-> pos + 1]
    ELSE [item |-> blends[1], pos |-> 1]

\* an iterator that stays on the last entry instead of wrapping
CycleNextStuck(pos) ==
  IF pos < Len(blends)
    THEN [item |-> blends[pos + 1], pos |-> pos + 1]
    ELSE [item |-> blends[Len(blends)], pos |-> pos]

\* blends.iter().cycle().next(): pos is the number of entries the inner slice
\* iterator has yielded since it was last restarted (0..Len(blends)); when the
\* inner iterator is exhausted it is replaced by a fresh clone and asked again.
CycleNext(pos) ==
  IF pos < Len(blends)
    THEN [item |-> blends[pos + 1], pos |-> pos + 1]
    ELSE [item |-> blends[1], pos |-> 1]

\* ------------------------------------------------------------------ events
KeyStates == {"Pressed", "Released"}
KeyCodes == {"B", "Escape", "A", "NoKey"}   \* NoKey: KeyboardInput(_, _, None)

KeyboardInput(st, key) == [type |-> "KeyboardInput", state |-> st, key |-> key]
Closed == [type |-> "Closed", state |-> NoValue, key |-> NoValue]
Focused == [type |-> "Focused", state |-> NoValue, key |-> NoValue]
NoEvent == [type |-> NoValue, state |-> NoValue, key |-> NoValue]

Events ==
  {KeyboardInput(st, key) : st \in KeyStates, key \in KeyCodes}
    \cup {Closed, Focused}

\* the cycle arm taken for any state of the B key
MatchArmAnyStateB(ev) ==
  IF ev.type = "KeyboardInput" /\ ev.key = "B"
    THEN "cycle"
  ELSE IF (ev.type = "KeyboardInput" /\ ev.key = "Escape") \/ ev.type = "Closed"
    THEN "break"
  ELSE "ignore"

\* the break arm taken for the Closed event only
MatchArmClosedOnly(ev) ==
  IF ev.type = "KeyboardInput" /\ ev.state = "Pressed" /\ ev.key = "B"
    THEN "cycle"
  ELSE IF ev.type = "Closed"
    THEN "break"
  ELSE "ignore"

\* the match of main.rs:141-150, arms tried in source order
MatchArm(ev) ==
  IF ev.type = "KeyboardInput" /\ ev.state = "Pressed" /\ ev.key = "B"
    THEN "cycle"
  ELSE IF (ev.type = "KeyboardInput" /\ ev.key = "Escape") \/ ev.type = "Closed"
    THEN "break"
  ELSE "ignore"

RECURSIVE CountPresses(_)
CountPresses(q) ==
  IF q = << >> THEN 0
  ELSE (IF Head(q) = KeyboardInput("Pressed", "B") THEN 1 ELSE 0)
         + CountPresses(Tail(q))

RECURSIVE SeqsUpTo(_)
SeqsUpTo(n) ==
  IF n = 0 THEN {<< >>}
  ELSE LET S == SeqsUpTo(n - 1)
       IN  S \cup {Append(s, e) : s \in {t \in S : Len(t) = n - 1}, e \in Events}

\* ------------------------------------------------------------------- state
VARIABLES
  pc,            \* position of main
  res,           \* handles created during start-up
  blends_cycle,  \* position of the cycle iterator
  blend_func,    \* the pair last yielded by blends_cycle
  stdout,        \* labels printed, oldest first
  data,          \* PipeData
  encoder,       \* commands recorded since the last reset
  submitted,     \* command buffer last handed to device.submit
  pending,       \* events of the current drain not yet delivered
  event,         \* event last delivered to the match
  iters,         \* encoder.reset calls (iterations started)
  submits,       \* device.submit calls
  presents,      \* window.swap_buffers calls
  cleanups,      \* device.cleanup calls
  presses,       \* cycle-key presses delivered to the match
  swap_result    \* Result of the last window.swap_buffers call

vars == << pc, res, blends_cycle, blend_func, stdout, data, encoder, submitted,
           pending, event, iters, submits, presents, cleanups, presses,
           swap_result >>

selector == << blends_cycle, blend_func, stdout >>
counters == << iters, submits, presents, cleanups >>

SetupPcs == {"create_vertex_buffer", "load_lena", "load_tint", "create_sampler",
             "create_shader_set", "create_pipeline_state", "blends_cycle",
             "pipe_data"}
LoopPcs == {"reset", "poll", "drain", "clear", "draw", "submit",
            "swap_buffers", "cleanup"}

\* main.rs:74-79, window, device, factory and encoder exist
Init ==
  /\ pc = "create_vertex_buffer"
  /\ res = [vbuf |-> Unbound, slice |-> Unbound, lena_texture |-> NoValue,
            tint_texture |-> NoValue, sampler |-> NoValue, shaders |-> NoValue,
            pso |-> Unbound, main_color |-> "main_color"]
  /\ blends_cycle = 0
  /\ blend_func = Unbound
  /\ stdout = << >>
  /\ data = Unbound
  /\ encoder = << >>
  /\ submitted = << >>
  /\ pending = << >>
  /\ event = NoEvent
  /\ iters = 0
  /\ submits = 0
  /\ presents = 0
  /\ cleanups = 0
  /\ presses = 0
  /\ swap_result = NoValue

\* ---------------------------------------------------------------- start-up
\* main.rs:91
CreateVertexBuffer ==
  /\ pc = "create_vertex_buffer"
  /\ res' = [res EXCEPT !.vbuf = vertex_data,
                        !.slice = [start |-> 0, end |-> Len(vertex_data)]]
  /\ pc' = "load_lena"
  /\ UNCHANGED << selector, data, encoder, submitted, pending, event, counters,
                  presses, swap_result >>

\* load_texture, main.rs:50-71: every fallible call is unwrapped, so the
\* function either panics or returns Ok(view)
load_texture(field, name, next) ==
  \E ok \in BOOLEAN :
    /\ IF ok
         THEN res' = [res EXCEPT ![field] = name] /\ pc' = next
         ELSE pc' = "panicked" /\ UNCHANGED res
    /\ UNCHANGED << selector, data, encoder, submitted, pending, event,
                    counters, presses, swap_result >>

\* main.rs:93
LoadLena ==
  /\ pc = "load_lena"
  /\ load_texture("lena_texture", "lena.png", "load_tint")

\* main.rs:94
LoadTint ==
  /\ pc = "load_tint"
  /\ load_texture("tint_texture", "tint.png", "create_sampler")

\* main.rs:95
CreateSampler ==
  /\ pc = "create_sampler"
  /\ res' = [res EXCEPT !.sampler = "sampler_linear"]
  /\ pc' = "create_shader_set"
  /\ UNCHANGED << selector, data, encoder, submitted, pending, event, counters,
                  presses, swap_result >>

\* a shader-set error that is dropped instead of unwrapped
CreateShaderSetIgnoreErr ==
  /\ pc = "create_shader_set"
  /\ \E ok \in BOOLEAN :
       IF ok
         THEN res' = [res EXCEPT !.shaders = "blend_150"]
         ELSE UNCHANGED res
  /\ pc' = "create_pipeline_state"
  /\ UNCHANGED << selector, data, encoder, submitted, pending, event, counters,
                  presses, swap_result >>

\* main.rs:97-100
CreateShaderSet ==
  /\ pc = "create_shader_set"
  /\ \E ok \in BOOLEAN :
       IF ok
         THEN res' = [res EXCEPT !.shaders = "blend_150"]
              /\ pc' = "create_pipeline_state"
         ELSE pc' = "panicked" /\ UNCHANGED res
  /\ UNCHANGED << selector, data, encoder, submitted, pending, event, counters,
                  presses, swap_result >>

\* main.rs:102-104
CreatePipelineState ==
  /\ pc = "create_pipeline_state"
  /\ \E ok \in BOOLEAN :
       IF ok
         THEN res' = [res EXCEPT !.pso = [shaders |-> res.shaders,
                                          primitive |-> "TriangleList"]]
              /\ pc' = "blends_cycle"
         ELSE pc' = "panicked" /\ UNCHANGED res
  /\ UNCHANGED << selector, data, encoder, submitted, pending, event, counters,
                  presses, swap_result >>

\* main.rs:122-125
InitBlendsCycle ==
  /\ pc = "blends_cycle"
  /\ LET n == CycleNext(0)
     IN  /\ blends_cycle' = n.pos
         /\ blend_func' = n.item
         /\ stdout' = Append(stdout, n.item[2])
  /\ pc' = "pipe_data"
  /\ UNCHANGED << res, data, encoder, submitted, pending, event, counters,
                  presses, swap_result >>

\* main.rs:127-135
BuildPipeData ==
  /\ pc = "pipe_data"
  /\ data' = [vbuf |-> res.vbuf,
              lena |-> res.lena_texture,
              lena_sampler |-> res.sampler,
              tint |-> res.tint_texture,
              tint_sampler |-> res.sampler,
              blend |-> blend_func[1],
              out |-> res.main_color]
  /\ pc' = "reset"
  /\ UNCHANGED << res, selector, encoder, submitted, pending, event, counters,
                  presses, swap_result >>

\* --------------------------------------------------------------- 'main loop
\* the clear recorded right after the reset, ahead of the event drain
ResetThenClear ==
  /\ pc = "reset"
  /\ iters < MaxIters
  /\ encoder' = << [cmd |-> "clear", target |-> data.out,
                    color |-> <<0, 0, 0, 0>>] >>
  /\ iters' = iters + 1
  /\ pc' = "poll"
  /\ UNCHANGED << res, selector, data, submitted, pending, event, submits,
                  presents, cleanups, presses, swap_result >>

\* main.rs:138
Reset ==
  /\ pc = "reset"
  /\ iters < MaxIters
  /\ encoder' = << >>
  /\ iters' = iters + 1
  /\ pc' = "poll"
  /\ UNCHANGED << res, selector, data, submitted, pending, event, submits,
                  presents, cleanups, presses, swap_result >>

\* main.rs:140, window.poll_events(): the events this drain will deliver
PollEvents ==
  /\ pc = "poll"
  /\ \E q \in SeqsUpTo(MaxDrain) :
       /\ presses + CountPresses(q) <= MaxPresses
       /\ pending' = q
  /\ pc' = "drain"
  /\ UNCHANGED << res, selector, data, encoder, submitted, event, counters,
                  presses, swap_result >>

\* a break that leaves only the for loop over the events
BreakEventLoop ==
  /\ pc' = "clear"
  /\ UNCHANGED << selector, data >>

\* main.rs:148, break 'main
BreakMain ==
  /\ pc' = "terminated"
  /\ UNCHANGED << selector, data >>

\* the uniform written before the cursor is advanced
CycleArmStale ==
  LET n == CycleNext(blends_cycle)
  IN  /\ blends_cycle' = n.pos
      /\ blend_func' = n.item
      /\ stdout' = Append(stdout, n.item[2])
      /\ data' = [data EXCEPT !.blend = blend_func[1]]
      /\ pc' = "drain"

\* the diagnostic names the mode that was left, not the one selected
CycleArmPrintOld ==
  LET n == CycleNext(blends_cycle)
  IN  /\ blends_cycle' = n.pos
      /\ blend_func' = n.item
      /\ stdout' = Append(stdout, blend_func[2])
      /\ data' = [data EXCEPT !.blend = n.item[1]]
      /\ pc' = "drain"

\* a cycle arm that also exchanges the two texture views of the block
CycleArmSwapLayers ==
  LET n == CycleNext(blends_cycle)
  IN  /\ blends_cycle' = n.pos
      /\ blend_func' = n.item
      /\ stdout' = Append(stdout, n.item[2])
      /\ data' = [data EXCEPT !.blend = n.item[1],
                              !.lena = data.tint, !.tint = data.lena]
      /\ pc' = "drain"

\* main.rs:143-145
CycleArm ==
  LET n == CycleNext(blends_cycle)
  IN  /\ blends_cycle' = n.pos
      /\ blend_func' = n.item
      /\ stdout' = Append(stdout, n.item[2])
      /\ data' = [data EXCEPT !.blend = n.item[1]]
      /\ pc' = "drain"

\* main.rs:149
IgnoreArm ==
  /\ pc' = "drain"
  /\ UNCHANGED << selector, data >>

\* main.rs:140-150, one turn of the for loop: the next event is taken from
\* the iterator and matched
HandleEvent ==
  /\ pc = "drain"
  /\ pending # << >>
  /\ event' = Head(pending)
  /\ pending' = Tail(pending)
  /\ presses' = IF Head(pending) = KeyboardInput("Pressed", "B")
                  THEN presses + 1 ELSE presses
  /\ CASE MatchArm(Head(pending)) = "cycle" -> CycleArm
       [] MatchArm(Head(pending)) = "break" -> BreakMain
       [] OTHER -> IgnoreArm
  /\ UNCHANGED << res, encoder, submitted, counters, swap_result >>

\* main.rs:140/151, the event iterator is exhausted
DrainDone ==
  /\ pc = "drain"
  /\ pending = << >>
  /\ pc' = "clear"
  /\ UNCHANGED << res, selector, data, encoder, submitted, pending, event,
                  counters, presses, swap_result >>

\* main.rs:153
ClearTarget ==
  /\ pc = "clear"
  /\ encoder' = Append(encoder, [cmd |-> "clear", target |-> data.out,
                                 color |-> <<0, 0, 0, 0>>])
  /\ pc' = "draw"
  /\ UNCHANGED << res, selector, data, submitted, pending, event, counters,
                  presses, swap_result >>

\* main.rs:154
DrawPipeline ==
  /\ pc = "draw"
  /\ encoder' = Append(encoder, [cmd |-> "draw", slice |-> res.slice,
                                 pso |-> res.pso, data |-> data])
  /\ pc' = "submit"
  /\ UNCHANGED << res, selector, data, submitted, pending, event, counters,
                  presses, swap_result >>

\* main.rs:155
Submit ==
  /\ pc = "submit"
  /\ submitted' = encoder
  /\ submits' = submits + 1
  /\ pc' = "swap_buffers"
  /\ UNCHANGED << res, selector, data, encoder, pending, event, iters,
                  presents, cleanups, presses, swap_result >>

\* a present that is tried again after a failure
SwapBuffersRetry ==
  /\ pc = "swap_buffers"
  /\ presents' = presents + 1
  /\ \E ok \in BOOLEAN :
       /\ swap_result' = IF ok THEN "Ok" ELSE "Err"
       /\ pc' = IF ok THEN "cleanup" ELSE "swap_buffers"
  /\ UNCHANGED << res, selector, data, encoder, submitted, pending, event,
                  iters, submits, cleanups, presses >>

\* a failed present that skips the frame and lets the loop go on
SwapBuffersSkipFrame ==
  /\ pc = "swap_buffers"
  /\ presents' = presents + 1
  /\ \E ok \in BOOLEAN :
       /\ swap_result' = IF ok THEN "Ok" ELSE "Err"
       /\ pc' = "cleanup"
  /\ UNCHANGED << res, selector, data, encoder, submitted, pending, event,
                  iters, submits, cleanups, presses >>

\* main.rs:156, swap_buffers().unwrap(): Err panics
SwapBuffers ==
  /\ pc = "swap_buffers"
  /\ presents' = presents + 1
  /\ \E ok \in BOOLEAN :
       /\ swap_result' = IF ok THEN "Ok" ELSE "Err"
       /\ pc' = IF ok THEN "cleanup" ELSE "panicked"
  /\ UNCHANGED << res, selector, data, encoder, submitted, pending, event,
                  iters, submits, cleanups, presses >>

\* a loop whose next iteration starts recording without resetting the encoder
CleanupNoReset ==
  /\ pc = "cleanup"
  /\ cleanups' = cleanups + 1
  /\ pc' = "poll"
  /\ UNCHANGED << res, selector, data, encoder, submitted, pending, event,
                  iters, submits, presents, presses, swap_result >>

\* main.rs:157
Cleanup ==
  /\ pc = "cleanup"
  /\ cleanups' = cleanups + 1
  /\ pc' = "reset"
  /\ UNCHANGED << res, selector, data, encoder, submitted, pending, event,
                  iters, submits, presents, presses, swap_result >>

Next ==
  \/ CreateVertexBuffer
  \/ LoadLena
  \/ LoadTint
  \/ CreateSampler
  \/ CreateShaderSet
  \/ CreatePipelineState
  \/ InitBlendsCycle
  \/ BuildPipeData
  \/ Reset
  \/ PollEvents
  \/ HandleEvent
  \/ DrainDone
  \/ ClearTarget
  \/ DrawPipeline
  \/ Submit
  \/ SwapBuffers
  \/ Cleanup

Spec == Init /\ [][Next]_vars

\* ------------------------------------------------- the loop run without end
\* The call counters iters, submits, presents and cleanups are history
\* variables of Spec and are left alone by the four actions below, so that the
\* loop can run for ever in a finite state space; SwapBuffersLive is the
\* present that never fails, PollEventsLive a drain over one event of each
\* kind.
\* main.rs:138
ResetLive ==
  /\ pc = "reset"
  /\ encoder' = << >>
  /\ pc' = "poll"
  /\ UNCHANGED << res, selector, data, submitted, pending, event, counters,
                  presses, swap_result >>

\* one event of each kind the match tells apart: a cycle-key press, a press
\* and a release of the exit key, the close signal and an ignored event
EventsLive ==
  {KeyboardInput("Pressed", "B"), KeyboardInput("Pressed", "Escape"),
   KeyboardInput("Released", "Escape"), Closed, Focused}

RECURSIVE SeqsUpToLive(_)
SeqsUpToLive(n) ==
  IF n = 0 THEN {<< >>}
  ELSE LET S == SeqsUpToLive(n - 1)
       IN  S \cup {Append(s, e) : s \in {t \in S : Len(t) = n - 1},
                                  e \in EventsLive}

\* main.rs:140, window.poll_events() returning finitely many events
PollEventsLive ==
  /\ pc = "poll"
  /\ \E q \in SeqsUpToLive(MaxDrain) :
       /\ presses + CountPresses(q) <= MaxPresses
       /\ pending' = q
  /\ pc' = "drain"
  /\ UNCHANGED << res, selector, data, encoder, submitted, event, counters,
                  presses, swap_result >>

\* main.rs:155
SubmitLive ==
  /\ pc = "submit"
  /\ submitted' = encoder
  /\ pc' = "swap_buffers"
  /\ UNCHANGED << res, selector, data, encoder, pending, event, counters,
                  presses, swap_result >>

\* main.rs:156, swap_buffers() returning Ok
SwapBuffersLive ==
  /\ pc = "swap_buffers"
  /\ swap_result' = "Ok"
  /\ pc' = "cleanup"
  /\ UNCHANGED << res, selector, data, encoder, submitted, pending, event,
                  counters, presses >>

\* main.rs:157
CleanupLive ==
  /\ pc = "cleanup"
  /\ pc' = "reset"
  /\ UNCHANGED << res, selector, data, encoder, submitted, pending, event,
                  counters, presses, swap_result >>

NextLive ==
  \/ CreateVertexBuffer
  \/ LoadLena
  \/ LoadTint
  \/ CreateSampler
  \/ CreateShaderSet
  \/ CreatePipelineState
  \/ InitBlendsCycle
  \/ BuildPipeData
  \/ ResetLive
  \/ PollEventsLive
  \/ HandleEvent
  \/ DrainDone
  \/ ClearTarget
  \/ DrawPipeline
  \/ SubmitLive
  \/ SwapBuffersLive
  \/ CleanupLive

\* main is one thread that runs until it returns or panics, and every call it
\* makes returns: a step that can be taken is taken
SpecLive == Init /\ [][NextLive]_vars /\ WF_vars(NextLive)

\* ================================================================= claims
\* the canonical list of labels of the blend-mode selector, position 0 first
Canonical ==
  << "Screen", "Dodge", "Burn", "Overlay", "Multiply", "Add", "Divide",
     "Grain Extract", "Grain Merge" >>
CanonicalPair(i) == << i, Canonical[i + 1] >>
LabelIndex(l) == CHOOSE i \in 0..8 : Canonical[i + 1] = l

CyclePress == KeyboardInput("Pressed", "B")
ExitPress == KeyboardInput("Pressed", "Escape")
\* close-requested, or any event of the exit key
Terminating(ev) == ev = Closed \/ (ev.type = "KeyboardInput" /\ ev.key = "Escape")
\* the loop is in its drain with an event about to be delivered
Delivering == pc = "drain" /\ pending # << >>

\* the result of n >= 1 consecutive advances from iterator position pos
RECURSIVE AdvanceN(_, _)
AdvanceN(pos, n) ==
  IF n = 1 THEN CycleNext(pos) ELSE AdvanceN(CycleNext(pos).pos, n - 1)

\* C1: once the Frame Data Block is built its blend field is always one of
\* the indices 0..8.
Thm_C1_BlendInRange == data # Unbound => data.blend \in 0..8
Wit_C1_LastIndex == data # Unbound /\ data.blend = 8 /\ presses = 8

\* C2: after N cycle-key presses have been processed the blend field equals
\* N mod 9, and the fresh block has blend 0 with label Screen.
Thm_C2_BlendIsPressesMod9 ==
  data # Unbound =>
    /\ data.blend = presses % 9
    /\ presses = 0 => blend_func = << 0, "Screen" >>
Wit_C2_Wrapped == data # Unbound /\ presses = 10 /\ data.blend = 1 /\ iters > 5

\* C3 as stated: i+1 advances from the cursor held when the Frame Data Block
\* is built yield the pair at position i.
Orig_C3_AdvancePlusOne ==
  \A i \in 0..8 :
    (data # Unbound /\ Len(stdout) - 1 = i + 1) => blend_func = CanonicalPair(i)

\* C3 amended: n advances from the cursor held when the Frame Data Block is
\* built yield the pair at position n mod 9, for n in 0..9.
Thm_C3_AdvanceYieldsPosition ==
  \A n \in 0..9 :
    (data # Unbound /\ Len(stdout) - 1 = n) =>
      /\ blend_func = CanonicalPair(n % 9)
      /\ stdout[Len(stdout)] = Canonical[(n % 9) + 1]
Wit_C3_NineAdvances ==
  data # Unbound /\ Len(stdout) - 1 = 9 /\ blend_func = << 0, "Screen" >>

\* C4: from every reachable cursor nine advances return to the same pair and
\* no fewer do; the advance after index 8 yields index 0, Screen.
Thm_C4_CyclicClosure ==
  /\ [](blend_func # Unbound =>
          /\ AdvanceN(blends_cycle, 9).item = blend_func
          /\ \A k \in 1..8 : AdvanceN(blends_cycle, k).item # blend_func
          /\ blend_func[1] = 8 =>
               CycleNext(blends_cycle).item = << 0, "Screen" >>)
  /\ [][(blend_func # Unbound /\ blend_func[1] = 8
           /\ blends_cycle' # blends_cycle)
          => blend_func' = << 0, "Screen" >>]_vars
Wit_C4_WrappedToScreen ==
  presses = 9 /\ blends_cycle = 1 /\ blend_func = << 0, "Screen" >>

\* C5: a terminating event delivered in a drain ends the loop at once, and the
\* iteration that observed it records no clear or draw and makes no submit or
\* present.
Thm_C5_TerminateSkipsFrame ==
  /\ [](pc = "terminated" =>
          /\ Terminating(event)
          /\ encoder = << >>
          /\ submits = iters - 1
          /\ presents = iters - 1)
  /\ [][(Delivering /\ Terminating(Head(pending))) =>
          /\ pc' = "terminated"
          /\ UNCHANGED << encoder, submitted, submits, presents >>]_vars
Wit_C5_ExitNoCycle ==
  /\ pc = "terminated" /\ event = ExitPress /\ presses = 0
  /\ iters = 2 /\ submits = 1 /\ presents = 1

\* C6: once a terminating event has been delivered nothing changes any more.
Thm_C6_TerminatedAbsorbing ==
  [][Terminating(event) => UNCHANGED vars]_vars
Wit_C6_EventLeftQueued ==
  pc = "terminated" /\ pending # << >> /\ Head(pending) = CyclePress

\* C7 as stated: the loop leaves Running only on a press of the exit key or
\* a close-requested signal, and an event that is neither of those nor a
\* cycle-key press changes neither the state nor the blend field.
Orig_C7_OnlyExitPressOrClose ==
  [][Delivering =>
       /\ Head(pending) \notin {ExitPress, Closed} => pc' = "drain"
       /\ Head(pending) \notin {ExitPress, Closed, CyclePress} =>
            UNCHANGED << data, selector >>]_vars

\* C8: a cycle-key press moves the cursor and the blend field by exactly one
\* position with one call of the iterator; every other step of the loop
\* leaves them unchanged.
Thm_C8_AdvanceOncePerPress ==
  [][data # Unbound =>
       IF Delivering /\ Head(pending) = CyclePress
         THEN /\ blend_func'[1] = (blend_func[1] + 1) % 9
              /\ data'.blend = (data.blend + 1) % 9
              /\ Len(stdout') = Len(stdout) + 1
              /\ blends_cycle' # blends_cycle
         ELSE /\ data'.blend = data.blend
              /\ UNCHANGED selector]_vars
Wit_C8_ReleaseAfterPress ==
  event = KeyboardInput("Released", "B") /\ presses = 1 /\ data.blend = 1

\* C9: every recorded draw, and every submitted one, carries the index of the
\* selector's current pair, which is the index of the label printed last.
Thm_C9_UniformInSync ==
  /\ \A i \in DOMAIN encoder :
       encoder[i].cmd = "draw" =>
         /\ encoder[i].data.blend = blend_func[1]
         /\ encoder[i].data.blend = LabelIndex(stdout[Len(stdout)])
  /\ pc \in {"swap_buffers", "cleanup"} =>
       /\ submitted = encoder
       /\ \E i \in DOMAIN submitted : submitted[i].cmd = "draw"
Wit_C9_TwoPressesOneDrain ==
  /\ pc = "swap_buffers" /\ iters = 1 /\ presses = 2
  /\ submitted[2].cmd = "draw" /\ submitted[2].data.blend = 2

\* C10 as stated, read at the points where no iteration is in progress: the
\* number of present calls equals the number of iterations started.
Orig_C10_PresentPerIteration ==
  pc \in {"reset", "terminated"} => presents = iters

\* C10 amended: present is called once in every iteration whose drain ends
\* without a terminating event and not at all in the iteration that observes
\* one.
Thm_C10_PresentPerDrawnIteration ==
  /\ pc \in SetupPcs \cup {"reset", "cleanup", "panicked"} => presents = iters
  /\ pc \in {"poll", "drain", "clear", "draw", "submit", "swap_buffers",
             "terminated"} => presents = iters - 1
  /\ submits \in {presents, presents + 1}
Wit_C10_TerminatedAfterTwoFrames ==
  pc = "terminated" /\ iters = 3 /\ presents = 2

\* C11 as stated: the number of diagnostic lines printed equals the number of
\* blend-mode changes.
Orig_C11_LinesEqualChanges == data # Unbound => Len(stdout) = presses

\* C11 amended: every blend-mode change prints exactly one line, naming the
\* newly selected label, and no other step of the loop prints; with the line
\* printed at start-up for Screen the output holds one line more than there
\* were changes.
Thm_C11_OneLinePerChange ==
  /\ [](data # Unbound =>
          /\ Len(stdout) = presses + 1
          /\ stdout[1] = "Screen"
          /\ presses = 1 => stdout = << "Screen", "Dodge" >>)
  /\ [][data # Unbound =>
          IF data'.blend # data.blend
            THEN stdout' = Append(stdout, Canonical[data'.blend + 1])
            ELSE stdout' = stdout]_vars
Wit_C11_DodgePrintedOnce ==
  data # Unbound /\ presses = 1 /\ data.blend = 1 /\ stdout[2] = "Dodge"

\* C12: a failed present ends the loop at that point: the process has
\* panicked, the present was called once in that iteration, the iteration's
\* cleanup has not run, and nothing happens any more.
Thm_C12_PresentFailureFatal ==
  /\ [](swap_result = "Err" =>
          /\ pc = "panicked"
          /\ presents = iters
          /\ submits = iters
          /\ cleanups = iters - 1)
  /\ [][swap_result = "Err" => UNCHANGED vars]_vars
Wit_C12_SecondPresentFails ==
  swap_result = "Err" /\ pc = "panicked" /\ iters = 2 /\ cleanups = 1

\* C13: a failure of a texture load, of the shader-set creation or of the
\* pipeline-state creation panics before the loop is entered: the steps after
\* the failed one are not attempted, no event is polled, no reset, clear,
\* draw, submit or present is ever performed, and the loop runs only with
\* every start-up resource created.
SetupFailed == pc = "panicked" /\ swap_result # "Err"
Thm_C13_SetupFailureAborts ==
  /\ [](SetupFailed =>
          /\ res.pso = Unbound
          /\ res.lena_texture = NoValue =>
               res.tint_texture = NoValue /\ res.sampler = NoValue
          /\ res.tint_texture = NoValue =>
               res.sampler = NoValue /\ res.shaders = NoValue
          /\ res.shaders = NoValue => res.pso = Unbound
          /\ blends_cycle = 0 /\ blend_func = Unbound /\ stdout = << >>
          /\ data = Unbound
          /\ pending = << >> /\ event = NoEvent
          /\ encoder = << >> /\ submitted = << >>
          /\ iters = 0 /\ submits = 0 /\ presents = 0 /\ cleanups = 0)
  /\ [][SetupFailed => UNCHANGED vars]_vars
  /\ [](pc \in LoopPcs =>
          /\ res.lena_texture # NoValue /\ res.tint_texture # NoValue
          /\ res.shaders # NoValue /\ res.pso # Unbound
          /\ data # Unbound)
Wit_C13_ShaderSetFails ==
  /\ SetupFailed
  /\ res.tint_texture # NoValue /\ res.sampler # NoValue
  /\ res.shaders = NoValue

\* C14: the uploaded quad is six vertices, read as two triangles of a
\* triangle list; both are counter-clockwise, together they cover the square
\* [-1,1]x[-1,1], and each vertex carries the texture coordinate the fixed
\* mapping gives its position.
\* twice the signed area of the triangle a, b, c (positive: counter-clockwise)
Cross(a, b, c) ==
  (b[1] - a[1]) * (c[2] - a[2]) - (b[2] - a[2]) * (c[1] - a[1])
\* p is in the closed (Strict = FALSE) or open (Strict = TRUE) triangle a, b, c
InTriangle(p, a, b, c, Strict) ==
  LET lim == IF Strict THEN 1 ELSE 0
  IN  Cross(a, b, p) >= lim /\ Cross(b, c, p) >= lim /\ Cross(c, a, p) >= lim
\* coordinates doubled, so that the half-integer points of the square are
\* integer points of the grid
Twice(p) == << 2 * p[1], 2 * p[2] >>
SquareGrid == {<< x, y >> : x \in -2..2, y \in -2..2}
UvOf(p) ==
  CASE p = <<-1, -1>> -> <<0, 1>>
    [] p = << 1, -1>> -> <<1, 1>>
    [] p = << 1,  1>> -> <<1, 0>>
    [] p = <<-1,  1>> -> <<0, 0>>
    [] OTHER -> << >>
QuadIsCorrect(v) ==
  /\ Len(v) = 6
  /\ \A i \in 1..6 : v[i].pos[1] \in {-1, 1} /\ v[i].pos[2] \in {-1, 1}
  /\ Cross(v[1].pos, v[2].pos, v[3].pos) > 0
  /\ Cross(v[4].pos, v[5].pos, v[6].pos) > 0
  /\ Cross(v[1].pos, v[2].pos, v[3].pos)
       + Cross(v[4].pos, v[5].pos, v[6].pos) = 2 * (2 * 2)
  /\ \A p \in SquareGrid :
       /\ \/ InTriangle(p, Twice(v[1].pos), Twice(v[2].pos), Twice(v[3].pos), FALSE)
          \/ InTriangle(p, Twice(v[4].pos), Twice(v[5].pos), Twice(v[6].pos), FALSE)
       /\ ~ /\ InTriangle(p, Twice(v[1].pos), Twice(v[2].pos), Twice(v[3].pos), TRUE)
            /\ InTriangle(p, Twice(v[4].pos), Twice(v[5].pos), Twice(v[6].pos), TRUE)
  /\ \A i \in 1..6 : v[i].uv = UvOf(v[i].pos)
  /\ \A i, j \in 1..6 : v[i].pos = v[j].pos => v[i].uv = v[j].uv
\* The geometry is evaluated where the buffer has just been uploaded and where
\* a draw of it has just been recorded; the buffer bound to the draw is the
\* uploaded one in every state.
Thm_C14_QuadGeometry ==
  res.vbuf # Unbound =>
    /\ pc \in {"load_lena", "submit"} => QuadIsCorrect(res.vbuf)
    /\ res.slice = [start |-> 0, end |-> 6]
    /\ data # Unbound => data.vbuf = res.vbuf
    /\ \A i \in DOMAIN encoder :
         encoder[i].cmd = "draw" =>
           encoder[i].data.vbuf = res.vbuf /\ encoder[i].slice = res.slice
Wit_C14_QuadDrawn ==
  /\ pc = "submit" /\ Len(res.vbuf) = 6
  /\ encoder[2].data.vbuf = res.vbuf /\ encoder[2].slice.end = 6

\* C15: an iteration that stays Running performs reset, drain, clear, draw,
\* submit, present and cleanup once each and in that order; every submit is
\* preceded by exactly one reset since the previous submit, and a frame is
\* recorded only after the submit of the frame before it.
Cmds(buf) == [i \in DOMAIN buf |-> buf[i].cmd]
LoopOrder ==
  { << "reset", "poll" >>, << "poll", "drain" >>, << "drain", "clear" >>,
    << "drain", "terminated" >>, << "clear", "draw" >>, << "draw", "submit" >>,
    << "submit", "swap_buffers" >>, << "swap_buffers", "cleanup" >>,
    << "swap_buffers", "panicked" >>, << "cleanup", "reset" >> }
Thm_C15_IterationOrder ==
  /\ [][(pc \in LoopPcs /\ pc' # pc) => << pc, pc' >> \in LoopOrder]_vars
  /\ [](pc = "reset" =>
          /\ submits = iters /\ presents = iters /\ cleanups = iters
          /\ Cmds(encoder) = IF iters = 0 THEN << >> ELSE << "clear", "draw" >>)
  /\ [](pc \in {"poll", "drain", "clear"} =>
          /\ submits = iters - 1 /\ presents = iters - 1 /\ cleanups = iters - 1
          /\ encoder = << >>)
  /\ [](pc = "draw" =>
          /\ submits = iters - 1 /\ presents = iters - 1 /\ cleanups = iters - 1
          /\ Cmds(encoder) = << "clear" >>)
  /\ [](pc = "submit" =>
          /\ submits = iters - 1 /\ presents = iters - 1 /\ cleanups = iters - 1
          /\ Cmds(encoder) = << "clear", "draw" >>)
  /\ [](pc = "swap_buffers" =>
          /\ submits = iters /\ presents = iters - 1 /\ cleanups = iters - 1
          /\ Cmds(submitted) = << "clear", "draw" >>)
  /\ [](pc = "cleanup" =>
          /\ submits = iters /\ presents = iters /\ cleanups = iters - 1)
Wit_C15_SecondFramePresented ==
  pc = "cleanup" /\ iters = 2 /\ submits = 2 /\ presents = 2 /\ cleanups = 1

\* C16: no step of the loop changes a start-up resource or any field of the
\* Frame Data Block other than blend; the block and every recorded draw bind
\* the vertex buffer, draw range, texture views, the one sampler, the output
\* target and the pipeline object created at start-up.
BindsStartupResources(d) ==
  /\ d.vbuf = res.vbuf
  /\ d.lena = res.lena_texture
  /\ d.tint = res.tint_texture
  /\ d.lena_sampler = res.sampler
  /\ d.tint_sampler = res.sampler
  /\ d.lena_sampler = d.tint_sampler
  /\ d.out = res.main_color
RecordedWithStartupResources(buf) ==
  \A i \in DOMAIN buf :
    /\ buf[i].cmd = "clear" => buf[i].target = res.main_color
    /\ buf[i].cmd = "draw" =>
         /\ buf[i].slice = res.slice
         /\ buf[i].pso = res.pso
         /\ BindsStartupResources(buf[i].data)
LoopStepKeepsBindings ==
  pc \in LoopPcs =>
    /\ res' = res
    /\ data = [data' EXCEPT !.blend = data.blend]
Thm_C16_OnlyBlendMutates ==
  /\ [][LoopStepKeepsBindings]_vars
  /\ [](data # Unbound =>
          /\ BindsStartupResources(data)
          /\ res.vbuf = vertex_data
          /\ res.lena_texture # res.tint_texture
          /\ RecordedWithStartupResources(encoder)
          /\ RecordedWithStartupResources(submitted))
Wit_C16_ThirdFrameAfterChanges ==
  /\ pc = "submit" /\ iters = 3 /\ presses = 3
  /\ encoder[2].data.blend = 3 /\ encoder[2].data.lena = "lena.png"

\* C17: the blend field is written only by a step of the event drain, while
\* the encoder is still empty after its reset; the draw held by the encoder,
\* and the one submitted, carry the value the field has until the cleanup of
\* that iteration is done.
BlendWrittenOnlyInDrain ==
  (data # Unbound /\ data'.blend # data.blend) =>
    /\ pc = "drain" /\ pc' = "drain"
    /\ encoder = << >> /\ encoder' = << >>
    /\ submits = iters - 1 /\ presents = iters - 1 /\ cleanups = iters - 1
Thm_C17_BlendWrittenInDrainOnly ==
  /\ [][BlendWrittenOnlyInDrain]_vars
  /\ [](\A i \in DOMAIN encoder :
          encoder[i].cmd = "draw" => encoder[i].data.blend = data.blend)
  /\ [](pc \in {"swap_buffers", "cleanup", "reset"} =>
          \A i \in DOMAIN submitted :
            submitted[i].cmd = "draw" => submitted[i].data.blend = data.blend)
Wit_C17_SubmittedValueKept ==
  /\ pc = "cleanup" /\ iters = 2 /\ presses = 3
  /\ submitted[2].data.blend = 3 /\ data.blend = 3

\* C18: with finite drains and a present that never fails, a terminating
\* event that has been delivered leads to Terminated, which is then kept;
\* the loop leaves Running for no other reason, and as long as no terminating
\* event is delivered every iteration started is submitted, presented and
\* followed by the next one, for ever.
TerminatingPending == \E i \in DOMAIN pending : Terminating(pending[i])
LeavesRunningOnlyByTerminating ==
  /\ pc \in LoopPcs => pc' \in LoopPcs \cup {"terminated"}
  /\ pc' = "terminated" =>
       \/ pc = "terminated"
       \/ pc = "drain" /\ pending # << >> /\ Terminating(Head(pending))
  /\ pc = "terminated" => pc' = "terminated"
Thm_C18_Liveness ==
  /\ (pc = "drain" /\ TerminatingPending) ~> (pc = "terminated")
  /\ [][LeavesRunningOnlyByTerminating]_vars
  /\ (pc = "reset") ~> (pc = "drain")
  /\ (pc = "drain" /\ ~TerminatingPending) ~> (pc = "submit")
  /\ (pc = "submit") ~> (pc = "cleanup")
  /\ (pc = "cleanup") ~> (pc = "reset")
  /\ ([]~TerminatingPending /\ <>(pc = "reset")) =>
       ([]<>(pc = "submit") /\ []<>(pc = "cleanup") /\ [](pc # "terminated"))
Wit_C18_TerminatedAfterFrames ==
  /\ pc = "terminated" /\ event = Closed /\ presses = 3
  /\ swap_result = "Ok" /\ submitted # << >>
====
